---- MODULE Spec2Model ----
(***************************************************************************)
(* Model of pdf.py: five probability density evaluators (gamma, rayleigh,  *)
(* rice, k, hk) that return a density, a residual or a weighted residual.  *)
(*                                                                         *)
(* Floating-point values are terms written as strings.  The IEEE special   *)
(* values ("nan", "inf", "-inf"), zero and the numbers of a small grid are *)
(* computed exactly; every other finite value is kept as the expression    *)
(* that produces it (for instance "gamma.pdf(1,1/2)"), so two results are  *)
(* equal in the model only when the code computes them the same way.       *)
(***************************************************************************)
EXTENDS Integers, Sequences, FiniteSets, TLC

\* ---------------------------------------------------------------- bounds
\* Longest one-dimensional x the caller passes.
MaxLen == 2
\* The shape parameter mu ranges over 0, 1/2, ..., MaxMu/2.
MaxMu == 2

\* ---------------------------------------------------------------- floats
NaN == "nan"
PInf == "inf"
NInf == "-inf"
Zero == "0"
One == "1"
Half == "1/2"
\* Largest finite double: what numpy.nan_to_num puts in place of +inf.
FloatMax == "1.7976931348623157e+308"
FloatMin == "-1.7976931348623157e+308"

\* The grid number n/2.
Num(n) ==
  IF n = 0 THEN Zero
  ELSE IF n % 2 = 0 THEN ToString(n \div 2)
  ELSE ToString(n) \o "/2"

IsFinite(f) == f \notin {NaN, PInf, NInf}

Call1(name, u) == name \o "(" \o u \o ")"
Call2(name, u, v) == name \o "(" \o u \o "," \o v \o ")"
Call3(name, u, v, w) == name \o "(" \o u \o "," \o v \o "," \o w \o ")"

\* u * v for u, v >= 0 or special (0 * inf is nan).
Mul(u, v) ==
  IF u = NaN \/ v = NaN THEN NaN
  ELSE IF u = PInf \/ v = PInf THEN (IF u = Zero \/ v = Zero THEN NaN ELSE PInf)
  ELSE IF u = Zero \/ v = Zero THEN Zero
  ELSE IF u = One THEN v
  ELSE IF v = One THEN u
  ELSE "(" \o u \o "*" \o v \o ")"

\* numpy's m - d for a finite d.
Sub(m, d) ==
  IF m \in {NaN, PInf, NInf} THEN m
  ELSE IF d = Zero THEN m
  ELSE IF m = Zero THEN "-" \o d
  ELSE "(" \o m \o "-" \o d \o ")"

\* numpy's r / e for a finite e >= 0 (a zero divisor does not raise).
Div(r, e) ==
  IF r \in {NaN, PInf, NInf} THEN r
  ELSE IF r = Zero THEN (IF e = Zero THEN NaN ELSE Zero)
  ELSE IF e = One THEN r
  ELSE "(" \o r \o "/" \o e \o ")"

\* numpy.sqrt of a finite u >= 0.
Sqrt(u) ==
  IF u \in {Zero, One} THEN u ELSE Call1("sqrt", u)

\* u / v for a finite u >= 0 and a finite v > 0.
Quot(u, v) ==
  IF u = Zero THEN Zero
  ELSE IF v = One THEN u
  ELSE u \o "/" \o v

\* ---------------------------------------------------------------- values
\* A Python value held in a parameter mapping: a plain float, a numpy
\* float64, or a boxed number (an object with a .value attribute).
Float(v) == [kind |-> "float", value |-> v]
Float64(v) == [kind |-> "float64", value |-> v]
Box(v) == [kind |-> "box", value |-> v]

\* None, a scalar, and arrays of one and two dimensions (val: the rows).
None == [kind |-> "none", val |-> <<>>]
Scalar(v) == [kind |-> "scalar", val |-> <<<<v>>>>]
Arr1(row) == [kind |-> "1d", val |-> <<row>>]
Arr2(r1, r2) == [kind |-> "2d", val |-> <<r1, r2>>]

MapArr(Op(_), arr) ==
  [kind |-> arr.kind,
   val |-> [i \in DOMAIN arr.val |->
              [j \in DOMAIN arr.val[i] |-> Op(arr.val[i][j])]]]

\* Elementwise Op over two arrays of one shape.
ZipArr(Op(_, _), arr, brr) ==
  [kind |-> arr.kind,
   val |-> [i \in DOMAIN arr.val |->
              [j \in DOMAIN arr.val[i] |-> Op(arr.val[i][j], brr.val[i][j])]]]

\* What a call gives back: a value, or the exception it ends in.
Return(arr) == [exc |-> "none", val |-> arr]
Raise(e) == [exc |-> e, val |-> None]

\* ---------------------------------------------------------------- library
\* scipy.stats.gamma.pdf(x, mu, scale=1): nan for an invalid shape (mu <= 0)
\* or a nan x; at x = 0 it is inf for mu < 1, 1 for mu = 1 and 0 above.
GammaPdf(x, mu) ==
  IF mu = Zero \/ x = NaN THEN NaN
  ELSE IF x = Zero THEN (IF mu = Half THEN PInf ELSE IF mu = One THEN One ELSE Zero)
  ELSE Call2("gamma.pdf", x, mu)

\* scipy.stats.rayleigh.pdf(x, scale=s): nan for an invalid scale (s <= 0).
RayleighPdf(x, s) ==
  IF s = Zero \/ x = NaN THEN NaN
  ELSE IF x = Zero THEN Zero
  ELSE Call2("rayleigh.pdf", x, s)

\* scipy.stats.rice.pdf(x, b, scale=s): nan for an invalid shape or scale.
RicePdf(x, b, s) ==
  IF s = Zero \/ b \in {NaN, PInf} \/ x = NaN THEN NaN
  ELSE IF x = Zero THEN Zero
  ELSE Call3("rice.pdf", x, b, s)

\* numpy's u / v for u, v >= 0: a zero divisor gives inf or nan, no exception.
NpDiv(u, v) ==
  IF u = NaN \/ v = NaN THEN NaN
  ELSE IF u = PInf THEN PInf
  ELSE IF v = Zero THEN (IF u = Zero THEN NaN ELSE PInf)
  ELSE Quot(u, v)

\* u ** p for u >= 0 or special and a finite p > 0.
Pow(u, p) ==
  IF u \in {NaN, PInf, Zero, One} THEN u
  ELSE IF p = One THEN u
  ELSE "(" \o u \o "**" \o p \o ")"

\* scipy.special.kv(v, z) for z >= 0 or special: inf at 0, 0 at inf.
Kv(v, z) ==
  IF z = NaN THEN NaN
  ELSE IF z = Zero THEN PInf
  ELSE IF z = PInf THEN Zero
  ELSE Call2("kv", v, z)

\* scipy.special.jv(0, z) for z >= 0 or nan: 1 at 0.
Jv0(z) ==
  IF z = NaN THEN NaN
  ELSE IF z = Zero THEN One
  ELSE Call2("jv", Zero, z)

\* Mutant: nan_to_num left out.
NanKept(f) == f

\* numpy.nan_to_num: nan becomes 0, +inf the largest finite double and -inf
\* the most negative one.
NanToNum(f) ==
  IF f = NaN THEN Zero
  ELSE IF f = PInf THEN FloatMax
  ELSE IF f = NInf THEN FloatMin
  ELSE f

nan_to_num(arr) == MapArr(NanToNum, arr)

\* Mutant: only the first row of x is taken.
first_row(x) == x.val[1]

\* np.array([x]).flatten(0): every element of x, row after row.
RECURSIVE Concat(_)
Concat(rows) ==
  IF rows = <<>> THEN <<>> ELSE Head(rows) \o Concat(Tail(rows))

flatten(x) == Concat(x.val)

\* ---------------------------------------------------------------- evaluators
\* Mutant: the weighted branch forgotten.
select_unweighted(model, data, eps) ==
  IF data.kind = "none" THEN model ELSE ZipArr(Sub, model, data)

\* The output selection every evaluator ends with.
select(model, data, eps) ==
  IF data.kind = "none" THEN model
  ELSE IF eps.kind = "none" THEN ZipArr(Sub, model, data)
  ELSE ZipArr(Div, ZipArr(Sub, model, data), eps)

\* Mutant: every evaluator looks all three keys up.
missing_any(p, keys) == \E key \in {"a", "s", "mu"} : key \notin DOMAIN p

\* params[key] for the keys an evaluator reads: a key that is not in the
\* mapping ends the call in KeyError.
missing(p, keys) == \E key \in keys : key \notin DOMAIN p

\* Mutant: the unwrapped value is stored back into the caller's mapping.
unwrap_stored(p, key) ==
  [local |-> IF p[key].kind = "box" THEN Float(p[key].value) ELSE p[key],
   mapping |-> IF p[key].kind = "box"
                 THEN [p EXCEPT ![key] = Float(p[key].value)] ELSE p]

\* v = params[key]; if hasattr(v, 'value'): v = v.value
\* The local name is rebound; the caller's mapping keeps its entry.
unwrap(p, key) ==
  [local |-> IF p[key].kind = "box" THEN Float(p[key].value) ELSE p[key],
   mapping |-> p]

gamma(p, xx, d, e) ==
  IF missing(p, {"mu"}) THEN Raise("KeyError")
  ELSE LET mu == unwrap(p, "mu").local
           model == nan_to_num(MapArr(LAMBDA xe : GammaPdf(xe, mu.value), xx))
       IN  Return(select(model, d, e))

\* scale = s is used as it comes: a boxed s is no number.
rayleigh(p, xx, d, e) ==
  IF missing(p, {"s"}) THEN Raise("KeyError")
  ELSE LET s == p["s"]
       IN  IF s.kind = "box" THEN Raise("TypeError")
           ELSE LET model == nan_to_num(MapArr(LAMBDA xe : RayleighPdf(xe, s.value), xx))
                IN  Return(select(model, d, e))

\* a/s divides the values as they come: boxed values are no numbers, and two
\* plain floats with s = 0 end in ZeroDivisionError (a numpy s gives inf/nan).
rice(p, xx, d, e) ==
  IF missing(p, {"a", "s"}) THEN Raise("KeyError")
  ELSE LET a == p["a"]
           s == p["s"]
       IN  IF a.kind = "box" \/ s.kind = "box" THEN Raise("TypeError")
           ELSE IF a.kind = "float" /\ s.kind = "float" /\ s.value = Zero
             THEN Raise("ZeroDivisionError")
           ELSE LET b == NpDiv(a.value, s.value)
                    model == nan_to_num(MapArr(LAMBDA xe : RicePdf(xe, b, s.value), xx))
                IN  Return(select(model, d, e))

\* 2*(x/2.)**mu * b**(mu+1.) / math.gamma(mu) * kv(mu-1, b*x) for mu > 0.
KFormula(xe, b, mu) ==
  LET t1 == Mul("2", Pow(NpDiv(xe, "2"), mu))
      t2 == Pow(b, "(" \o mu \o "+1)")
      t3 == NpDiv(Mul(t1, t2), Call1("math.gamma", mu))
  IN  Mul(t3, Kv("(" \o mu \o "-1)", Mul(b, xe)))

\* math.gamma(0) is a ValueError (math domain error).
k(p, xx, d, e) ==
  IF missing(p, {"s", "mu"}) THEN Raise("KeyError")
  ELSE LET s == p["s"]
           mu == p["mu"]
       IN  IF mu.kind = "box" \/ s.kind = "box" THEN Raise("TypeError")
           ELSE IF mu.value = Zero THEN Raise("ValueError")
           ELSE LET b == NpDiv(Sqrt(Mul("2", mu.value)), s.value)
                    model == nan_to_num(MapArr(LAMBDA xe : KFormula(xe, b, mu.value), xx))
                IN  Return(select(model, d, e))

\* ---------------------------------------------------------------- hk
\* Mutant: the inner call is handed a data argument.
InnerCallWithData(f, p, xx, d, e) ==
  [fn |-> f, params |-> p, x |-> xx, data |-> Scalar(Zero), eps |-> e]

\* One call hk's integrand makes to another evaluator.
InnerCall(f, p, xx, d, e) == [fn |-> f, params |-> p, x |-> xx, data |-> d, eps |-> e]

\* x*w*jv(0, w*a)*jv(0, w*x)*(1. + w**2*s**2/(2.*mu))**-mu for mu > 0.
Analytic(w, xe, a, s, mu) ==
  LET ws == Mul(w, s)
      tail == IF ws = Zero THEN One
              ELSE "(1+" \o ws \o "**2/(2*" \o mu \o "))**-" \o mu
  IN  Mul(Mul(Mul(Mul(xe, w), Jv0(Mul(w, a))), Jv0(Mul(w, xe))), tail)

\* The integrand at w: what it returns (ret; "None" when no branch returns),
\* the exception it ends in, and the calls it made to rice and gamma.
\* w, a, s, mu are plain floats: w/mu and 2.*mu as divisors raise for mu = 0.
integrand(w, xe, a, s, mu, method) ==
  IF method = "analytic" THEN
    IF mu = Zero THEN [exc |-> "ZeroDivisionError", ret |-> "None", calls |-> <<>>]
    ELSE [exc |-> "none", ret |-> Analytic(w, xe, a, s, mu), calls |-> <<>>]
  ELSE IF method = "compound" THEN
    IF mu = Zero THEN [exc |-> "ZeroDivisionError", ret |-> "None", calls |-> <<>>]
    ELSE LET rp == [key \in {"a", "s"} |->
                      IF key = "a" THEN Float(a)
                      ELSE Float64(Mul(s, Sqrt(Quot(w, mu))))]
             gp == [key \in {"mu"} |-> Float(mu)]
             c1 == InnerCall("rice", rp, Scalar(xe), None, None)
             c2 == InnerCall("gamma", gp, Scalar(w), None, None)
             r1 == rice(c1.params, c1.x, c1.data, c1.eps)
             r2 == gamma(c2.params, c2.x, c2.data, c2.eps)
         IN  IF r1.exc # "none" THEN [exc |-> r1.exc, ret |-> "None", calls |-> <<c1>>]
             ELSE IF r2.exc # "none" THEN [exc |-> r2.exc, ret |-> "None", calls |-> <<c1, c2>>]
             ELSE [exc |-> "none",
                   ret |-> Mul(r1.val.val[1][1], r2.val.val[1][1]),
                   calls |-> <<c1, c2>>]
  ELSE [exc |-> "none", ret |-> "None", calls |-> <<>>]

\* The points at which the quadrature samples the integrand.
QuadNodes == <<Zero, Half, One>>

\* The estimate the quadrature forms from the sampled values.
Estimate(vals) ==
  IF \E i \in DOMAIN vals : vals[i] = NaN THEN NaN
  ELSE IF \A i \in DOMAIN vals : vals[i] = Zero THEN Zero
  ELSE Call3("quad", vals[1], vals[2], vals[3])

\* integrate.quad(integrand, 0., np.inf, args=(xe, a, s, mu, method))[0]:
\* the integrand is sampled node after node; an exception in it, or a return
\* that is no float, ends the quadrature at that node.
RECURSIVE QuadFrom(_, _, _, _, _, _, _, _)
QuadFrom(i, vals, calls, xe, a, s, mu, method) ==
  IF i > Len(QuadNodes) THEN [exc |-> "none", ret |-> Estimate(vals), calls |-> calls]
  ELSE LET r == integrand(QuadNodes[i], xe, a, s, mu, method)
       IN  IF r.exc # "none"
             THEN [exc |-> r.exc, ret |-> "None", calls |-> calls \o r.calls]
           ELSE IF r.ret = "None"
             THEN [exc |-> "QuadpackError", ret |-> "None", calls |-> calls \o r.calls]
           ELSE QuadFrom(i + 1, Append(vals, r.ret), calls \o r.calls, xe, a, s, mu, method)

quad(xe, a, s, mu, method) == QuadFrom(1, <<>>, <<>>, xe, a, s, mu, method)

\* hk's loop: the integrals of the elements of xs, in order, up to the first
\* quadrature that ends in an exception.
RECURSIVE Integrals(_, _, _, _, _, _)
Integrals(xs, acc, a, s, mu, method) ==
  IF xs = <<>> THEN [exc |-> "none", vals |-> acc]
  ELSE LET q == quad(Head(xs), a, s, mu, method)
       IN  IF q.exc # "none" THEN [exc |-> q.exc, vals |-> acc]
           ELSE Integrals(Tail(xs), Append(acc, q.ret), a, s, mu, method)

\* Mutant: an unknown method falls back to 'compound'.
MethodOrCompound(m) == IF m \in {"analytic", "compound"} THEN m ELSE "compound"

\* method = 'compound' is the default of hk's signature.
Method(m) == IF m = "omitted" THEN "compound" ELSE m

\* hk as one call.
hk(p, xx, d, e, m) ==
  IF missing(p, {"a", "s", "mu"}) THEN Raise("KeyError")
  ELSE LET a == unwrap(p, "a").local.value
           s == unwrap(p, "s").local.value
           mu == unwrap(p, "mu").local.value
           r == Integrals(flatten(xx), <<>>, a, s, mu, Method(m))
       IN  IF r.exc # "none" THEN Raise(r.exc)
           ELSE Return(select([kind |-> "1d", val |-> <<r.vals>>], d, e))

\* ---------------------------------------------------------------- state
VARIABLES
  pc,       \* "idle", "called", "integrate" (inside hk's loop) or "done"
  fn,       \* the evaluator called
  params,   \* the caller's parameter mapping
  x,        \* the caller's x
  data,     \* the caller's data, or None
  eps,      \* the caller's eps, or None
  method,   \* hk's method argument ("omitted" when the caller gives none)
  verbose,  \* hk's verbose argument
  result,   \* what the call gave back
  printed,  \* what the call wrote to standard output
  frame,    \* hk's local names: a, s, mu, the flattened x, the integrals so far
  inner,    \* the calls to rice and gamma made by the latest quadrature
  prev,     \* the result of the same call made before
  again     \* the call repeats the one before

vars == <<pc, fn, params, x, data, eps, method, verbose, result, printed,
          frame, inner, prev, again>>

Keys == {"a", "s", "mu"}
Evaluators == {"gamma", "rayleigh", "rice", "k", "hk"}
Methods == {"omitted", "compound", "analytic", "other"}

\* hk's two extra arguments as the caller gives them (the other evaluators
\* have neither).
HkOptions == {<<m, FALSE>> : m \in Methods} \cup {<<"omitted", TRUE>>}

\* The values the caller gives a parameter, plain or boxed.
ParamVals(key) ==
  IF key = "mu" THEN {Num(n) : n \in 0..MaxMu} ELSE {Zero, One}

Objects(key) ==
  {Float(v) : v \in ParamVals(key)} \cup {Box(v) : v \in ParamVals(key)}

\* The mappings the caller passes: any subset of the keys.
Mappings ==
  UNION {{p \in [S -> UNION {Objects(key) : key \in Keys}] :
            \A key \in S : p[key] \in Objects(key)} : S \in SUBSET Keys}

\* The x the caller passes: a scalar, an array of up to MaxLen elements, or
\* an array of two rows; an element is 0, 1 or nan.
XVals == {Zero, One, NaN}

XChoices ==
  {Scalar(v) : v \in XVals}
    \cup UNION {{Arr1(row) : row \in [1..n -> XVals]} : n \in 0..MaxLen}
    \cup {Arr2(<<u>>, <<v>>) : u, v \in XVals}

DataVals == <<Zero, "3">>
EpsVals == <<"2", Zero>>

\* An array of the given shape filled with vals in rotation.
Fill(shape, vals, r) ==
  [kind |-> shape.kind,
   val |-> [i \in DOMAIN shape.val |->
              [j \in DOMAIN shape.val[i] |-> vals[((i + j + r) % Len(vals)) + 1]]]]

\* The shape of the model the evaluator computes for x.
ModelShape(f, xx) == IF f = "hk" THEN Arr1(flatten(xx)) ELSE xx

\* data and eps, when given, have the shape of the model.
Optional(f, xx, vals, c) ==
  IF c = 0 THEN None ELSE Fill(ModelShape(f, xx), vals, c)

NoResult == [exc |-> "pending", val |-> None]
NoFrame == [a |-> Zero, s |-> Zero, mu |-> Zero, x |-> <<>>, model |-> <<>>]

Init ==
  /\ pc = "idle"
  /\ fn = "gamma"
  /\ params = [key \in {} |-> Float(Zero)]
  /\ x = Scalar(Zero)
  /\ data = None
  /\ eps = None
  /\ method = "omitted"
  /\ verbose = FALSE
  /\ result = NoResult
  /\ printed = <<>>
  /\ frame = NoFrame
  /\ inner = <<>>
  /\ prev = NoResult
  /\ again = FALSE

\* The caller calls an evaluator with fresh arguments.
Call ==
  /\ pc = "idle"
  /\ \E f \in Evaluators, p \in Mappings, xx \in XChoices, dc \in 0..1, ec \in 0..1 :
       /\ fn' = f
       /\ params' = p
       /\ x' = xx
       /\ data' = Optional(f, xx, DataVals, dc)
       /\ eps' = Optional(f, xx, EpsVals, ec)
  /\ \E o \in HkOptions :
       /\ (fn' # "hk" => o = <<"omitted", FALSE>>)
       /\ method' = o[1]
       /\ verbose' = o[2]
  /\ pc' = "called"
  /\ result' = NoResult
  /\ printed' = <<>>
  /\ frame' = NoFrame
  /\ inner' = <<>>
  /\ prev' = NoResult
  /\ again' = FALSE

\* The caller takes the result and drops the arguments; nothing of the call
\* is left.
Receive ==
  /\ pc = "done"
  /\ pc' = "idle"
  /\ fn' = "gamma"
  /\ params' = [key \in {} |-> Float(Zero)]
  /\ x' = Scalar(Zero)
  /\ data' = None
  /\ eps' = None
  /\ method' = "omitted"
  /\ verbose' = FALSE
  /\ result' = NoResult
  /\ printed' = <<>>
  /\ frame' = NoFrame
  /\ inner' = <<>>
  /\ prev' = NoResult
  /\ again' = FALSE

\* The caller repeats the call it just made, with the same arguments.
Repeat ==
  /\ pc = "done"
  /\ ~again
  /\ pc' = "called"
  /\ prev' = result
  /\ again' = TRUE
  /\ result' = NoResult
  /\ printed' = <<>>
  /\ frame' = NoFrame
  /\ inner' = <<>>
  /\ UNCHANGED <<fn, params, x, data, eps, method, verbose>>

Gamma ==
  /\ pc = "called"
  /\ fn = "gamma"
  /\ result' = gamma(params, x, data, eps)
  /\ params' = IF missing(params, {"mu"}) THEN params ELSE unwrap(params, "mu").mapping
  /\ pc' = "done"
  /\ UNCHANGED <<fn, x, data, eps, method, verbose, printed, frame, inner, prev, again>>

Rayleigh ==
  /\ pc = "called"
  /\ fn = "rayleigh"
  /\ result' = rayleigh(params, x, data, eps)
  /\ pc' = "done"
  /\ UNCHANGED <<fn, params, x, data, eps, method, verbose, printed, frame, inner, prev, again>>

Rice ==
  /\ pc = "called"
  /\ fn = "rice"
  /\ result' = rice(params, x, data, eps)
  /\ pc' = "done"
  /\ UNCHANGED <<fn, params, x, data, eps, method, verbose, printed, frame, inner, prev, again>>

K ==
  /\ pc = "called"
  /\ fn = "k"
  /\ result' = k(params, x, data, eps)
  /\ pc' = "done"
  /\ UNCHANGED <<fn, params, x, data, eps, method, verbose, printed, frame, inner, prev, again>>

\* hk up to its loop: the three lookups, the unwrapping, the diagnostic
\* print and the flattening of x.
HkEnter ==
  /\ pc = "called"
  /\ fn = "hk"
  /\ IF missing(params, {"a", "s", "mu"})
       THEN /\ result' = Raise("KeyError")
            /\ pc' = "done"
            /\ UNCHANGED <<params, printed, frame>>
       ELSE LET a == unwrap(params, "a")
                s == unwrap(a.mapping, "s")
                mu == unwrap(s.mapping, "mu")
            IN  /\ params' = mu.mapping
                /\ printed' = IF verbose = TRUE
                                THEN <<<<a.local.value, s.local.value, mu.local.value>>>>
                                ELSE <<>>
                /\ frame' = [a |-> a.local.value, s |-> s.local.value,
                             mu |-> mu.local.value, x |-> flatten(x), model |-> <<>>]
                /\ pc' = "integrate"
                /\ UNCHANGED result
  /\ UNCHANGED <<fn, x, data, eps, method, verbose, inner, prev, again>>

\* One turn of hk's loop: the integral for the next element of x.
HkQuad ==
  /\ pc = "integrate"
  /\ Len(frame.model) < Len(frame.x)
  /\ LET q == quad(frame.x[Len(frame.model) + 1], frame.a, frame.s, frame.mu,
                   Method(method))
     IN  /\ inner' = q.calls
         /\ IF q.exc # "none"
              THEN /\ result' = Raise(q.exc)
                   /\ pc' = "done"
                   /\ UNCHANGED frame
              ELSE /\ frame' = [frame EXCEPT !.model = Append(@, q.ret)]
                   /\ UNCHANGED <<pc, result>>
  /\ UNCHANGED <<fn, params, x, data, eps, method, verbose, printed, prev, again>>

\* hk after its loop: model = np.array(model), then the output selection.
HkReturn ==
  /\ pc = "integrate"
  /\ Len(frame.model) = Len(frame.x)
  /\ result' = Return(select(Arr1(frame.model), data, eps))
  /\ pc' = "done"
  /\ UNCHANGED <<fn, params, x, data, eps, method, verbose, printed, frame, inner, prev, again>>

Next ==
  \/ Call
  \/ Receive
  \/ Gamma
  \/ Rayleigh
  \/ Rice
  \/ K
  \/ HkEnter
  \/ HkQuad
  \/ HkReturn

Spec == Init /\ [][Next]_vars

\* The same, with the caller free to repeat a call.
NextRepeat ==
  \/ Next
  \/ Repeat

SpecRepeat == Init /\ [][NextRepeat]_vars

\* ---------------------------------------------------------------- properties
Leaves == {"gamma", "rayleigh", "rice", "k"}

\* The call of evaluator f as one function of its arguments.
Eval(f, p, xx, d, e, m) ==
  CASE f = "gamma" -> gamma(p, xx, d, e)
    [] f = "rayleigh" -> rayleigh(p, xx, d, e)
    [] f = "rice" -> rice(p, xx, d, e)
    [] f = "k" -> k(p, xx, d, e)
    [] f = "hk" -> hk(p, xx, d, e, m)

\* The call has returned a value.
Returned == pc = "done" /\ result.exc = "none"

Positions(arr) ==
  UNION {{<<i, j>> : j \in DOMAIN arr.val[i]} : i \in DOMAIN arr.val}

At(arr, pos) == arr.val[pos[1]][pos[2]]

\* C1: a call returns the model when data is absent (with or without eps),
\* model - data elementwise when only data is given, and (model - data) / eps
\* elementwise when both are given, where model is what the same call returns
\* with data and eps absent; it ends in an exception exactly when that call does.
C1_OutputSelection ==
  pc = "done" =>
    LET m == Eval(fn, params, x, None, None, method)
    IN  /\ result.exc = m.exc
        /\ result.exc = "none" =>
             /\ result.val.kind = m.val.kind
             /\ Positions(result.val) = Positions(m.val)
             /\ \A pos \in Positions(m.val) :
                  At(result.val, pos) =
                    IF data.kind = "none" THEN At(m.val, pos)
                    ELSE IF eps.kind = "none" THEN Sub(At(m.val, pos), At(data, pos))
                    ELSE Div(Sub(At(m.val, pos), At(data, pos)), At(eps, pos))

\* hk has returned a weighted residual of two points, the second a computed
\* integral that data and eps have changed.
C1_Witness ==
  /\ Returned
  /\ fn = "hk"
  /\ data.kind # "none"
  /\ eps.kind # "none"
  /\ Len(frame.model) = 2
  /\ frame.model[2] \notin {Zero, NaN}
  /\ result.val.val[1][2] # frame.model[2]

\* The formula of a leaf evaluator at one element of x, before nan_to_num.
RawValue(f, p, xe) ==
  CASE f = "gamma" -> GammaPdf(xe, p["mu"].value)
    [] f = "rayleigh" -> RayleighPdf(xe, p["s"].value)
    [] f = "rice" -> RicePdf(xe, NpDiv(p["a"].value, p["s"].value), p["s"].value)
    [] f = "k" -> KFormula(xe, NpDiv(Sqrt(Mul("2", p["mu"].value)), p["s"].value),
                           p["mu"].value)

\* -d as numpy writes 0 - d.
Negated(d) == IF d = Zero THEN Zero ELSE "-" \o d

C3_HkFinite ==
  (Returned /\ fn = "hk" /\ data.kind = "none") =>
    \A pos \in Positions(result.val) : IsFinite(At(result.val, pos))


\* Every entry of the mapping as a plain float.
Plain(p) == [key \in DOMAIN p |-> Float(p[key].value)]

\* C4 as stated: a boxed parameter value gives the same result as the plain
\* float it carries.
C4_BoxedSameAsPlain ==
  pc = "done" => result = Eval(fn, Plain(params), x, data, eps, method)

\* C5 as stated: hk with method 'analytic' or 'compound' and its three
\* parameters given does not raise, whatever their values.
C5_HkDoesNotRaise ==
  (pc = "done" /\ fn = "hk" /\ method # "other" /\ Keys \subseteq DOMAIN params)
    => result.exc = "none"

\* The number of elements of x, and its i-th element, rows first.
Size(xx) == IF xx.val = <<>> THEN 0 ELSE Len(xx.val) * Len(xx.val[1])

ElementAt(xx, i) ==
  LET c == Len(xx.val[1])
  IN  xx.val[((i - 1) \div c) + 1][((i - 1) % c) + 1]

\* C6: the density hk returns is a one-dimensional array with one element per
\* element of x, the i-th being the integral for the i-th element of x; a
\* scalar x gives what the single-element array [x] gives.
C6_HkOnePerElement ==
  (Returned /\ fn = "hk") =>
    /\ data.kind = "none" =>
         /\ result.val.kind = "1d"
         /\ Len(result.val.val[1]) = Size(x)
         /\ \A i \in 1..Size(x) :
              result.val.val[1][i] =
                quad(ElementAt(x, i), params["a"].value, params["s"].value,
                     params["mu"].value, Method(method)).ret
    /\ x.kind = "scalar" => result = hk(params, Arr1(x.val[1]), data, eps, method)

\* hk has returned the density of a two-row x, with two different integrals.
C6_Witness ==
  /\ Returned
  /\ fn = "hk"
  /\ data.kind = "none"
  /\ x.kind = "2d"
  /\ Len(result.val.val[1]) = 2
  /\ result.val.val[1][1] # result.val.val[1][2]

\* The keys each evaluator reads.
Reads(f) ==
  CASE f = "gamma" -> {"mu"}
    [] f = "rayleigh" -> {"s"}
    [] f = "rice" -> {"a", "s"}
    [] f = "k" -> {"s", "mu"}
    [] f = "hk" -> {"a", "s", "mu"}

\* C7: a call ends in KeyError exactly when the mapping lacks a key the
\* evaluator reads; it then returns nothing and (hk) has printed nothing and
\* integrated nothing.
C7_MissingKey ==
  pc = "done" =>
    /\ result.exc = "KeyError" <=> ~(Reads(fn) \subseteq DOMAIN params)
    /\ result.exc = "KeyError" =>
         /\ result.val = None
         /\ printed = <<>>
         /\ inner = <<>>
         /\ frame = NoFrame

\* hk, asked to print, has ended in KeyError for a mapping without mu.
C7_Witness ==
  /\ pc = "done"
  /\ fn = "hk"
  /\ verbose
  /\ DOMAIN params = {"a", "s"}
  /\ result.exc = "KeyError"

\* A step of an evaluator leaves the caller's arguments as they are, and the
\* step that ends a repeated call gives the result of the call before.
EvaluatorStep ==
  pc \in {"called", "integrate"} =>
    /\ params' = params
    /\ x' = x
    /\ data' = data
    /\ eps' = eps
    /\ (pc' = "done" /\ again) => result' = prev

\* C8: no step of an evaluator changes the caller's params, x, data or eps,
\* and a call repeated with the same arguments gives the same result.
C8_NoEffectNoState == [][EvaluatorStep]_vars

\* hk has returned for the second time, with boxed parameters and after
\* calls to rice and gamma.
C8_Witness ==
  /\ Returned
  /\ again
  /\ fn = "hk"
  /\ \A key \in Keys : key \in DOMAIN params /\ params[key].kind = "box"
  /\ inner # <<>>
  /\ result = prev

\* C9: with method 'compound' (given or by default) the integrand calls,
\* at every node w, rice with {a: a, s: s*sqrt(w/mu)} at x_i and then gamma
\* with {mu: mu} at w, on the unwrapped plain values and without data or
\* eps; with 'analytic' it calls neither.  The integrals are collected as
\* densities, and hk's data and eps are applied to them once, at the end.
C9_InnerCalls ==
  (pc \in {"integrate", "done"} /\ fn = "hk") =>
    /\ method = "analytic" => inner = <<>>
    /\ (method \in {"omitted", "compound"} /\ inner # <<>>) =>
         /\ Len(inner) = 2 * Len(QuadNodes)
         /\ \A n \in DOMAIN QuadNodes :
              LET w == QuadNodes[n]
                  rc == inner[2 * n - 1]
                  gc == inner[2 * n]
              IN  /\ rc.fn = "rice"
                  /\ DOMAIN rc.params = {"a", "s"}
                  /\ rc.params["a"] = Float(params["a"].value)
                  /\ rc.params["s"] =
                       Float64(Mul(params["s"].value, Sqrt(Quot(w, params["mu"].value))))
                  /\ rc.x = Scalar(frame.x[Len(frame.model)])
                  /\ gc.fn = "gamma"
                  /\ DOMAIN gc.params = {"mu"}
                  /\ gc.params["mu"] = Float(params["mu"].value)
                  /\ gc.x = Scalar(w)
                  /\ rc.data = None /\ rc.eps = None
                  /\ gc.data = None /\ gc.eps = None
    /\ (method \in {"omitted", "compound"} /\ pc = "integrate" /\ frame.model # <<>>)
         => inner # <<>>
    /\ pc = "integrate" => result = NoResult
    /\ (Returned /\ method \in {"omitted", "compound"}) =>
         /\ Len(result.val.val[1]) = Len(frame.model)
         /\ \A i \in DOMAIN frame.model :
              result.val.val[1][i] =
                IF data.kind = "none" THEN frame.model[i]
                ELSE IF eps.kind = "none" THEN Sub(frame.model[i], data.val[1][i])
                ELSE Div(Sub(frame.model[i], data.val[1][i]), eps.val[1][i])

\* hk, called with data, eps and boxed parameters and no method, has computed
\* an integral through rice and gamma.
C9_Witness ==
  /\ pc = "integrate"
  /\ fn = "hk"
  /\ method = "omitted"
  /\ data.kind # "none"
  /\ eps.kind # "none"
  /\ params["s"].kind = "box"
  /\ inner # <<>>
  /\ frame.model # <<>>
  /\ frame.model[Len(frame.model)] \notin {Zero, NaN}

\* C10: hk with a method that is neither 'analytic' nor 'compound' fails at
\* the first integration point of a non-empty x and returns nothing; with an
\* empty x it returns an empty result.
C10_UnknownMethod ==
  (pc = "done" /\ fn = "hk" /\ method = "other" /\ Keys \subseteq DOMAIN params) =>
    IF Size(x) = 0
      THEN /\ result.exc = "none"
           /\ result.val = Arr1(<<>>)
      ELSE /\ result.exc = "QuadpackError"
           /\ result.val = None
           /\ frame.model = <<>>
           /\ inner = <<>>

\* hk with an unknown method has failed on a two-element x.
C10_Witness ==
  /\ pc = "done"
  /\ fn = "hk"
  /\ method = "other"
  /\ Size(x) = 2
  /\ result.exc = "QuadpackError"

====
